---------------------------- MODULE Spec2Model ----------------------------
(***************************************************************************)
(* Remote-backed relay chain client of the minimal collator node:          *)
(*   - build_collator_network and the network driving loop                 *)
(*     (client/mini-node/src/network.rs),                                  *)
(*   - new_minimal_relay_chain (client/relay-chain-minimal-node/src/lib.rs)*)
(*   - the notification streams and the blockchain backend adapter         *)
(*     (client/mini-node/src/blockchain_rpc_client.rs).                    *)
(***************************************************************************)
EXTENDS Integers, Sequences, FiniteSets, TLC

(***************************************************************************)
(* Bounds of the model.                                                    *)
(***************************************************************************)
\* headers a notification stream may carry
NumHeaders == 2
\* notifications the remote emits on the two streams together
MaxEmit == 3
\* completed scheduling steps of the network worker that are counted
MaxPolls == 1

VARIABLES
    \* ---- new_minimal_relay_chain (lib.rs) ----
    nodePc,         \* position in new_minimal_relay_chain
    extraSets,      \* peer-set extras added to config.network.extra_sets
    reqProtocols,   \* request/response protocol configs pushed to the config
    authDisc,       \* authority-discovery service created
    overseer,       \* overseer spawned
    \* ---- build_collator_network (network.rs) ----
    buildResult,    \* "none" | "ok" | "err": what build_collator_network returned
    cfgAtBuild,     \* configuration snapshot handed to NetworkWorker::new
    starter,        \* the one-shot sender inside NetworkStarter
    task,           \* the spawned "network-worker" task
    warned,         \* tracing::warn! of the dropped starter was emitted
    \* ---- build_network_collator_future (network.rs) ----
    subscribed,     \* streams the future has subscribed to, in order
    bestQ,          \* headers pending in the best-block stream
    finQ,           \* headers pending in the finality stream
    bestClosed,     \* the best-block stream has no more items coming
    finClosed,      \* the finality stream has no more items coming
    bestFused,      \* Fuse of the best stream has seen None
    finFused,       \* Fuse of the finality stream has seen None
    calls,          \* calls made against the network worker / service
    netPolls,       \* completed polls of the network worker future
    chainOnLoop,    \* the worker has run an adapter operation on the loop's task
    \* ---- history of the environment ----
    bestEmitted,    \* every header the remote put on the best-block stream
    finEmitted,     \* every header the remote put on the finality stream
    \* ---- import_/finality_notification_stream_async (blockchain_rpc_client.rs) ----
    streamSt,       \* per stream: "unsubscribed" | "subscribed" | "ended" | "panicked"
    subItems,       \* per stream: items buffered in the underlying subscription
    subClosed,      \* per stream: the underlying push channel has closed
    subFed,         \* per stream: every item the remote pushed (history)
    out,            \* per stream: headers the stream yielded to its consumer
    errLogs,        \* per stream: number of tracing::error! lines written
    \* ---- the blockchain backend adapter (blockchain_rpc_client.rs) ----
    remoteBest,     \* height of the remote node's best block
    remoteFin,      \* height of the remote node's finalized block
    caller,         \* "alive" | "in_info" | "panicked": the thread calling the adapter
    lastCall,       \* the adapter operation called last
    lastResult,     \* what that operation returned
    rpcTrace,       \* the remote calls that operation issued, in order
    infoPc,         \* the sub-query info() issues next, "idle" outside info()
    infoLocals,     \* best_header, genesis_hash, finalized_head inside info()
    infoSnap,       \* the sp_blockchain::Info that info() returned last
    remoteMoved,    \* the remote chain changed since info() was entered last
    \* ---- the blocking bridge on the node's runtime (blockchain_rpc_client.rs) ----
    bOp,            \* per caller: the synchronous operation it is in
    bSt,            \* per caller: "idle" | "running" | "waiting" | "answered" | "returned"
    bCore,          \* per caller: its thread holds a worker core of the runtime
    bLeft,          \* per caller: remote calls the operation has yet to make
    \* ---- CacheProvider / SimpleTrieCache (validate_block/trie_cache.rs) ----
    nodeCache,      \* CacheProvider.node_cache: hash -> node, NoEntry if absent
    valueCache,     \* CacheProvider.value_cache: key -> cached value, NoEntry if absent
    nodeBorrowed,   \* the RefCell of node_cache is mutably borrowed
    valueBorrowed,  \* the RefCell of value_cache is mutably borrowed
    liveCaches,     \* SimpleTrieCache instances alive
    cacheId,        \* SimpleTrieCache instances obtained so far
    trieSt,         \* "alive" | "panicked"
    trieCalls,      \* operations made on the provider and its caches
    lastTrieOp      \* the last of them, with what it returned

netVars == <<nodePc, extraSets, reqProtocols, authDisc, overseer, buildResult,
             cfgAtBuild, starter, task, warned, subscribed, bestQ, finQ,
             bestClosed, finClosed, bestFused, finFused, calls, netPolls,
             chainOnLoop, bestEmitted, finEmitted>>

streamVars == <<streamSt, subItems, subClosed, subFed, out, errLogs>>

infoVars == <<infoPc, infoLocals, infoSnap, remoteMoved>>

adapterVars == <<remoteBest, remoteFin, caller, lastCall, lastResult, rpcTrace,
                 infoVars>>

bridgeVars == <<bOp, bSt, bCore, bLeft>>

trieVars == <<nodeCache, valueCache, nodeBorrowed, valueBorrowed, liveCaches,
              cacheId, trieSt, trieCalls, lastTrieOp>>

vars == <<netVars, streamVars, adapterVars, bridgeVars, trieVars>>

nonNetVars == <<streamVars, adapterVars, bridgeVars, trieVars>>

nonStreamVars == <<netVars, adapterVars, bridgeVars, trieVars>>

nonAdapterVars == <<netVars, streamVars, bridgeVars, trieVars>>

nonBridgeVars == <<netVars, streamVars, adapterVars, trieVars>>

nonTrieVars == <<netVars, streamVars, adapterVars, bridgeVars>>

(***************************************************************************)
(* Headers: a header has a hash and a number.                              *)
(***************************************************************************)
HashOf(n) == 100 + n

Headers == {[hash |-> HashOf(n), number |-> n] : n \in 1..NumHeaders}


NewBestCall(h) == [op |-> "new_best_block_imported", hash |-> h.hash, number |-> h.number]

FinalizedCall(h) == [op |-> "on_block_finalized", hash |-> h.hash, number |-> h.number]

(***************************************************************************)
(* The synchronous operations of the adapter that wait for a remote call.  *)
(***************************************************************************)
\* operations that wait through block_local
BlockLocalOps == {"number", "info", "block_status"}

\* operations that wait through futures::executor::block_on
BlockOnOps == {"header"}

SyncOps == BlockLocalOps \cup BlockOnOps

(***************************************************************************)
(* Initial state: new_minimal_relay_chain has just been called.            *)
(***************************************************************************)
NetInit ==
    /\ nodePc = "listen_addresses"
    /\ extraSets = FALSE
    /\ reqProtocols = 0
    /\ authDisc = FALSE
    /\ overseer = FALSE
    /\ buildResult = "none"
    /\ cfgAtBuild = [extraSets |-> FALSE, reqProtocols |-> 0]
    /\ starter = "none"
    /\ task = "none"
    /\ warned = FALSE
    /\ subscribed = <<>>
    /\ bestQ = <<>>
    /\ finQ = <<>>
    /\ bestClosed = FALSE
    /\ finClosed = FALSE
    /\ bestFused = FALSE
    /\ finFused = FALSE
    /\ calls = <<>>
    /\ netPolls = 0
    /\ chainOnLoop = FALSE
    /\ bestEmitted = <<>>
    /\ finEmitted = <<>>

nodeVars == <<nodePc, extraSets, reqProtocols, authDisc, overseer>>
buildVars == <<buildResult, cfgAtBuild, starter, task, warned>>
streamQVars == <<bestQ, finQ, bestClosed, finClosed, bestEmitted, finEmitted>>
loopVars == <<subscribed, bestFused, finFused, calls, netPolls>>

(***************************************************************************)
(* new_minimal_relay_chain, statement by statement.                        *)
(***************************************************************************)
\* Mutation: the start trigger fires when it is dropped.
DropStarter_Fires(s) == IF s = "held" THEN "fired" ELSE s

\* Dropping the locals of new_minimal_relay_chain on an early return: a
\* NetworkStarter that is still held is dropped unfired.
DropStarter(s) == IF s = "held" THEN "dropped" ELSE s

\* relay_chain_rpc_client.local_listen_addresses().await?
LocalListenAddresses ==
    /\ nodePc = "listen_addresses"
    /\ \E ok \in BOOLEAN : nodePc' = IF ok THEN "task_manager" ELSE "err"
    /\ UNCHANGED <<extraSets, reqProtocols, authDisc, overseer>>
    /\ UNCHANGED <<buildVars, streamQVars, loopVars>>
    /\ UNCHANGED <<chainOnLoop, nonNetVars>>

\* TaskManager::new(..)?
NewTaskManager ==
    /\ nodePc = "task_manager"
    /\ \E ok \in BOOLEAN : nodePc' = IF ok THEN "genesis_hash" ELSE "err"
    /\ UNCHANGED <<extraSets, reqProtocols, authDisc, overseer>>
    /\ UNCHANGED <<buildVars, streamQVars, loopVars>>
    /\ UNCHANGED <<chainOnLoop, nonNetVars>>

\* block_get_hash(Some(0)).await.expect(..).unwrap_or_default()
GetGenesisHash ==
    /\ nodePc = "genesis_hash"
    /\ \E ok \in BOOLEAN : nodePc' = IF ok THEN "peer_sets" ELSE "panic"
    /\ UNCHANGED <<extraSets, reqProtocols, authDisc, overseer>>
    /\ UNCHANGED <<buildVars, streamQVars, loopVars>>
    /\ UNCHANGED <<chainOnLoop, nonNetVars>>

\* config.network.extra_sets.extend(peer_sets_info(..))
ExtendPeerSets ==
    /\ nodePc = "peer_sets"
    /\ extraSets' = TRUE
    /\ nodePc' = "request_protocols"
    /\ UNCHANGED <<reqProtocols, authDisc, overseer>>
    /\ UNCHANGED <<buildVars, streamQVars, loopVars>>
    /\ UNCHANGED <<chainOnLoop, nonNetVars>>

\* build_request_response_protocol_receivers: four configs are pushed
NumRequestProtocols == 4

BuildRequestResponseProtocolReceivers ==
    /\ nodePc = "request_protocols"
    /\ reqProtocols' = reqProtocols + NumRequestProtocols
    /\ nodePc' = "build_network"
    /\ UNCHANGED <<extraSets, authDisc, overseer>>
    /\ UNCHANGED <<buildVars, streamQVars, loopVars>>
    /\ UNCHANGED <<chainOnLoop, nonNetVars>>

(***************************************************************************)
(* build_collator_network: NetworkWorker::new(params)?, the lazy future,   *)
(* the one-shot channel, spawn_blocking of the gated task, Ok((network,    *)
(* NetworkStarter)).                                                       *)
(***************************************************************************)
\* Mutation: the network is started as soon as it has been built.
BuildCollatorNetwork_StartsAtOnce ==
    /\ nodePc = "build_network"
    /\ buildResult = "none"
    /\ cfgAtBuild' = [extraSets |-> extraSets, reqProtocols |-> reqProtocols]
    /\ \E workerOk \in BOOLEAN :
          IF workerOk
          THEN /\ buildResult' = "ok"
               /\ starter' = "fired"
               /\ task' = "gate"
               /\ nodePc' = "authority_discovery"
          ELSE /\ buildResult' = "err"
               /\ starter' = starter
               /\ task' = task
               /\ nodePc' = "err"
    /\ UNCHANGED <<extraSets, reqProtocols, authDisc, overseer, warned>>
    /\ UNCHANGED <<streamQVars, loopVars>>
    /\ UNCHANGED <<chainOnLoop, nonNetVars>>

\* Mutation: the channel is created and the gated task spawned before the
\* worker is constructed.
BuildCollatorNetwork_SpawnsFirst ==
    /\ nodePc = "build_network"
    /\ buildResult = "none"
    /\ cfgAtBuild' = [extraSets |-> extraSets, reqProtocols |-> reqProtocols]
    /\ \E workerOk \in BOOLEAN :
          IF workerOk
          THEN /\ buildResult' = "ok"
               /\ starter' = "held"
               /\ task' = "gate"
               /\ nodePc' = "authority_discovery"
          ELSE /\ buildResult' = "err"
               /\ starter' = "dropped"
               /\ task' = "gate"
               /\ nodePc' = "err"
    /\ UNCHANGED <<extraSets, reqProtocols, authDisc, overseer, warned>>
    /\ UNCHANGED <<streamQVars, loopVars>>
    /\ UNCHANGED <<chainOnLoop, nonNetVars>>

BuildCollatorNetwork ==
    /\ nodePc = "build_network"
    /\ buildResult = "none"
    /\ cfgAtBuild' = [extraSets |-> extraSets, reqProtocols |-> reqProtocols]
    /\ \E workerOk \in BOOLEAN :
          IF workerOk
          THEN /\ buildResult' = "ok"
               /\ starter' = "held"
               /\ task' = "gate"
               /\ nodePc' = "authority_discovery"
          ELSE /\ buildResult' = "err"
               /\ starter' = starter
               /\ task' = task
               /\ nodePc' = "err"
    /\ UNCHANGED <<extraSets, reqProtocols, authDisc, overseer, warned>>
    /\ UNCHANGED <<streamQVars, loopVars>>
    /\ UNCHANGED <<chainOnLoop, nonNetVars>>

\* build_authority_discovery_service(..)
BuildAuthorityDiscoveryService ==
    /\ nodePc = "authority_discovery"
    /\ authDisc' = TRUE
    /\ nodePc' = "open_database"
    /\ UNCHANGED <<extraSets, reqProtocols, overseer>>
    /\ UNCHANGED <<buildVars, streamQVars, loopVars>>
    /\ UNCHANGED <<chainOnLoop, nonNetVars>>

\* open_database(&config.database)?
OpenDatabase ==
    /\ nodePc = "open_database"
    /\ \E ok \in BOOLEAN :
          IF ok
          THEN nodePc' = "spawn_overseer" /\ starter' = starter
          ELSE nodePc' = "err" /\ starter' = DropStarter(starter)
    /\ UNCHANGED <<extraSets, reqProtocols, authDisc, overseer>>
    /\ UNCHANGED <<buildResult, cfgAtBuild, task, warned>>
    /\ UNCHANGED <<streamQVars, loopVars>>
    /\ UNCHANGED <<chainOnLoop, nonNetVars>>

\* collator_overseer::spawn_overseer(..)?
SpawnOverseer ==
    /\ nodePc = "spawn_overseer"
    /\ \E ok \in BOOLEAN :
          IF ok
          THEN nodePc' = "start_network" /\ overseer' = TRUE /\ starter' = starter
          ELSE nodePc' = "err" /\ overseer' = overseer /\ starter' = DropStarter(starter)
    /\ UNCHANGED <<extraSets, reqProtocols, authDisc>>
    /\ UNCHANGED <<buildResult, cfgAtBuild, task, warned>>
    /\ UNCHANGED <<streamQVars, loopVars>>
    /\ UNCHANGED <<chainOnLoop, nonNetVars>>

\* network_starter.start_network(); Ok(NewMinimalNode {..})
StartNetwork ==
    /\ nodePc = "start_network"
    /\ starter = "held"
    /\ starter' = "fired"
    /\ nodePc' = "ok"
    /\ UNCHANGED <<extraSets, reqProtocols, authDisc, overseer>>
    /\ UNCHANGED <<buildResult, cfgAtBuild, task, warned>>
    /\ UNCHANGED <<streamQVars, loopVars>>
    /\ UNCHANGED <<chainOnLoop, nonNetVars>>

(***************************************************************************)
(* The gated "network-worker" task spawned by build_collator_network.      *)
(***************************************************************************)
\* Mutation: the task does not wait for the start signal to be fired.
GateOpen_Ungated ==
    /\ task = "gate"
    /\ starter \in {"held", "fired"}
    /\ task' = "subscribing"
    /\ UNCHANGED <<buildResult, cfgAtBuild, starter, warned>>
    /\ UNCHANGED <<nodeVars, streamQVars, loopVars>>
    /\ UNCHANGED <<chainOnLoop, nonNetVars>>

\* network_start_rx.await resolved Ok(()): future.await begins
GateOpen ==
    /\ task = "gate"
    /\ starter = "fired"
    /\ task' = "subscribing"
    /\ UNCHANGED <<buildResult, cfgAtBuild, starter, warned>>
    /\ UNCHANGED <<nodeVars, streamQVars, loopVars>>
    /\ UNCHANGED <<chainOnLoop, nonNetVars>>

\* Mutation: a cancelled one-shot is treated like a fired one.
GateCancelled_RunsAnyway ==
    /\ task = "gate"
    /\ starter = "dropped"
    /\ task' = "subscribing"
    /\ UNCHANGED <<buildResult, cfgAtBuild, starter, warned>>
    /\ UNCHANGED <<nodeVars, streamQVars, loopVars>>
    /\ UNCHANGED <<chainOnLoop, nonNetVars>>

\* network_start_rx.await resolved Err(Canceled): warn and return
GateCancelled ==
    /\ task = "gate"
    /\ starter = "dropped"
    /\ warned' = TRUE
    /\ task' = "ended"
    /\ UNCHANGED <<buildResult, cfgAtBuild, starter>>
    /\ UNCHANGED <<nodeVars, streamQVars, loopVars>>
    /\ UNCHANGED <<chainOnLoop, nonNetVars>>

(***************************************************************************)
(* build_network_collator_future: the three subscriptions, then the loop.  *)
(***************************************************************************)
\* import_stream(), finality_stream(), best_stream() are awaited in this order
SubscriptionOrder == <<"import", "finality", "best">>

\* one of the three `client.*_stream().await.fuse()` statements completes
Subscribe ==
    /\ task = "subscribing"
    /\ Len(subscribed) < Len(SubscriptionOrder)
    /\ subscribed' = Append(subscribed, SubscriptionOrder[Len(subscribed) + 1])
    /\ task' = IF Len(subscribed') = Len(SubscriptionOrder) THEN "Running" ELSE task
    /\ UNCHANGED <<buildResult, cfgAtBuild, starter, warned>>
    /\ UNCHANGED <<bestFused, finFused, calls, netPolls>>
    /\ UNCHANGED <<nodeVars, streamQVars>>
    /\ UNCHANGED <<chainOnLoop, nonNetVars>>

\* the subscription request fails: .expect("subscribe_all_heads") panics the task
SubscribePanic ==
    /\ task = "subscribing"
    /\ Len(subscribed) < Len(SubscriptionOrder)
    /\ task' = "panicked"
    /\ UNCHANGED <<buildResult, cfgAtBuild, starter, warned>>
    /\ UNCHANGED <<nodeVars, streamQVars, loopVars>>
    /\ UNCHANGED <<chainOnLoop, nonNetVars>>

IsSubscribed(s) == \E i \in 1..Len(subscribed) : subscribed[i] = s

StreamsAlive == task \in {"subscribing", "Running"}

\* the remote pushes a header on the best-head subscription
EmitBest ==
    /\ StreamsAlive
    /\ IsSubscribed("best")
    /\ ~bestClosed
    /\ Len(bestEmitted) + Len(finEmitted) < MaxEmit
    /\ \E h \in Headers :
          /\ bestQ' = Append(bestQ, h)
          /\ bestEmitted' = Append(bestEmitted, h)
    /\ UNCHANGED <<finQ, bestClosed, finClosed, finEmitted>>
    /\ UNCHANGED <<nodeVars, buildVars, loopVars>>
    /\ UNCHANGED <<chainOnLoop, nonNetVars>>

\* the remote pushes a header on the finalized-head subscription
EmitFinalized ==
    /\ StreamsAlive
    /\ IsSubscribed("finality")
    /\ ~finClosed
    /\ Len(bestEmitted) + Len(finEmitted) < MaxEmit
    /\ \E h \in Headers :
          /\ finQ' = Append(finQ, h)
          /\ finEmitted' = Append(finEmitted, h)
    /\ UNCHANGED <<bestQ, bestClosed, finClosed, bestEmitted>>
    /\ UNCHANGED <<nodeVars, buildVars, loopVars>>
    /\ UNCHANGED <<chainOnLoop, nonNetVars>>

\* the best-head subscription ends (connection loss, remote session end)
CloseBest ==
    /\ StreamsAlive
    /\ IsSubscribed("best")
    /\ ~bestClosed
    /\ bestClosed' = TRUE
    /\ UNCHANGED <<bestQ, finQ, finClosed, bestEmitted, finEmitted>>
    /\ UNCHANGED <<nodeVars, buildVars, loopVars>>
    /\ UNCHANGED <<chainOnLoop, nonNetVars>>

\* the finalized-head subscription ends
CloseFinalized ==
    /\ StreamsAlive
    /\ IsSubscribed("finality")
    /\ ~finClosed
    /\ finClosed' = TRUE
    /\ UNCHANGED <<bestQ, finQ, bestClosed, bestEmitted, finEmitted>>
    /\ UNCHANGED <<nodeVars, buildVars, loopVars>>
    /\ UNCHANGED <<chainOnLoop, nonNetVars>>

\* Mutation: pending best-block headers are coalesced into the newest one.
BestItem_Coalesce ==
    /\ task = "Running"
    /\ ~bestFused
    /\ bestQ # <<>>
    /\ calls' = Append(calls, NewBestCall(bestQ[Len(bestQ)]))
    /\ bestQ' = <<>>
    /\ UNCHANGED <<finQ, bestClosed, finClosed, bestEmitted, finEmitted>>
    /\ UNCHANGED <<subscribed, bestFused, finFused, netPolls>>
    /\ UNCHANGED <<nodeVars, buildVars>>
    /\ UNCHANGED <<chainOnLoop, nonNetVars>>

\* Mutation: once the worker has been polled its branch is always taken
\* ahead of the best-block branch.
BestItem_StarvedByWorker ==
    /\ task = "Running"
    /\ ~bestFused
    /\ bestQ # <<>>
    /\ netPolls = 0
    /\ calls' = Append(calls, NewBestCall(Head(bestQ)))
    /\ bestQ' = Tail(bestQ)
    /\ UNCHANGED <<finQ, bestClosed, finClosed, bestEmitted, finEmitted>>
    /\ UNCHANGED <<subscribed, bestFused, finFused, netPolls>>
    /\ UNCHANGED <<nodeVars, buildVars>>
    /\ UNCHANGED <<chainOnLoop, nonNetVars>>

\* select!: new_best_notification_stream.next() => Some(n)
BestItem ==
    /\ task = "Running"
    /\ ~bestFused
    /\ bestQ # <<>>
    /\ calls' = Append(calls, NewBestCall(Head(bestQ)))
    /\ bestQ' = Tail(bestQ)
    /\ UNCHANGED <<finQ, bestClosed, finClosed, bestEmitted, finEmitted>>
    /\ UNCHANGED <<subscribed, bestFused, finFused, netPolls>>
    /\ UNCHANGED <<nodeVars, buildVars>>
    /\ UNCHANGED <<chainOnLoop, nonNetVars>>

\* Mutation: the end of the best-block stream is ignored, as select_next_some does.
BestEnd_KeepsRunning ==
    /\ task = "Running"
    /\ ~bestFused
    /\ bestQ = <<>>
    /\ bestClosed
    /\ bestFused' = TRUE
    /\ UNCHANGED <<subscribed, finFused, calls, netPolls>>
    /\ UNCHANGED <<nodeVars, buildVars, streamQVars>>
    /\ UNCHANGED <<chainOnLoop, nonNetVars>>

\* select!: new_best_notification_stream.next() => None => return
BestEnd ==
    /\ task = "Running"
    /\ ~bestFused
    /\ bestQ = <<>>
    /\ bestClosed
    /\ bestFused' = TRUE
    /\ task' = "Stopped"
    /\ UNCHANGED <<buildResult, cfgAtBuild, starter, warned>>
    /\ UNCHANGED <<subscribed, finFused, calls, netPolls>>
    /\ UNCHANGED <<nodeVars, streamQVars>>
    /\ UNCHANGED <<chainOnLoop, nonNetVars>>

\* Mutation: a finality item is held back while a best-block item is pending.
FinItem_WaitsForBest ==
    /\ task = "Running"
    /\ ~finFused
    /\ finQ # <<>>
    /\ bestQ = <<>>
    /\ calls' = Append(calls, FinalizedCall(Head(finQ)))
    /\ finQ' = Tail(finQ)
    /\ UNCHANGED <<bestQ, bestClosed, finClosed, bestEmitted, finEmitted>>
    /\ UNCHANGED <<subscribed, bestFused, finFused, netPolls>>
    /\ UNCHANGED <<nodeVars, buildVars>>
    /\ UNCHANGED <<chainOnLoop, nonNetVars>>

\* select!: finality_notification_stream.select_next_some() => notification
FinItem ==
    /\ task = "Running"
    /\ ~finFused
    /\ finQ # <<>>
    /\ calls' = Append(calls, FinalizedCall(Head(finQ)))
    /\ finQ' = Tail(finQ)
    /\ UNCHANGED <<bestQ, bestClosed, finClosed, bestEmitted, finEmitted>>
    /\ UNCHANGED <<subscribed, bestFused, finFused, netPolls>>
    /\ UNCHANGED <<nodeVars, buildVars>>
    /\ UNCHANGED <<chainOnLoop, nonNetVars>>

\* Mutation: the end of the finality stream makes the loop return.
FinEnd_Stops ==
    /\ task = "Running"
    /\ ~finFused
    /\ finQ = <<>>
    /\ finClosed
    /\ finFused' = TRUE
    /\ task' = "Stopped"
    /\ UNCHANGED <<buildResult, cfgAtBuild, starter, warned>>
    /\ UNCHANGED <<subscribed, bestFused, calls, netPolls>>
    /\ UNCHANGED <<nodeVars, streamQVars>>
    /\ UNCHANGED <<chainOnLoop, nonNetVars>>

\* select!: the finality stream returns None: SelectNextSome stays pending,
\* the Fuse is terminated and select! skips the branch from now on
FinEnd ==
    /\ task = "Running"
    /\ ~finFused
    /\ finQ = <<>>
    /\ finClosed
    /\ finFused' = TRUE
    /\ UNCHANGED <<subscribed, bestFused, calls, netPolls>>
    /\ UNCHANGED <<nodeVars, buildVars, streamQVars>>
    /\ UNCHANGED <<chainOnLoop, nonNetVars>>

\* Mutation: the loop returns once a poll of the worker has completed.
NetworkStep_ThenReturns ==
    /\ task = "Running"
    /\ netPolls' = IF netPolls < MaxPolls THEN netPolls + 1 ELSE netPolls
    /\ task' = "Stopped"
    /\ \E op \in SyncOps \cup {"none"} : chainOnLoop' = (chainOnLoop \/ op \in SyncOps)
    /\ UNCHANGED <<subscribed, bestFused, finFused, calls>>
    /\ UNCHANGED <<nodeVars, streamQVars>>
    /\ UNCHANGED <<buildResult, cfgAtBuild, starter, warned>>
    /\ UNCHANGED nonNetVars

\* Mutation: the worker branch also takes the next best-block item.
NetworkStep_TakesBestItem ==
    /\ task = "Running"
    /\ netPolls' = IF netPolls < MaxPolls THEN netPolls + 1 ELSE netPolls
    /\ bestQ' = IF bestQ = <<>> THEN bestQ ELSE Tail(bestQ)
    /\ \E op \in SyncOps \cup {"none"} : chainOnLoop' = (chainOnLoop \/ op \in SyncOps)
    /\ UNCHANGED <<subscribed, bestFused, finFused, calls>>
    /\ UNCHANGED <<finQ, bestClosed, finClosed, bestEmitted, finEmitted>>
    /\ UNCHANGED <<nodeVars, buildVars>>
    /\ UNCHANGED nonNetVars

\* select!: (&mut network).fuse() => {}
\* The worker is always ready to be polled; netPolls counts the completed
\* polls up to MaxPolls. The worker was built with chain: client.clone(): while it is polled, on
\* the loop's task, it may call a synchronous operation of the adapter
NetworkStep ==
    /\ task = "Running"
    /\ netPolls' = IF netPolls < MaxPolls THEN netPolls + 1 ELSE netPolls
    /\ \E op \in SyncOps \cup {"none"} : chainOnLoop' = (chainOnLoop \/ op \in SyncOps)
    /\ UNCHANGED <<subscribed, bestFused, finFused, calls>>
    /\ UNCHANGED <<nodeVars, buildVars, streamQVars>>
    /\ UNCHANGED nonNetVars

NetNext ==
    \/ LocalListenAddresses
    \/ NewTaskManager
    \/ GetGenesisHash
    \/ ExtendPeerSets
    \/ BuildRequestResponseProtocolReceivers
    \/ BuildCollatorNetwork
    \/ BuildAuthorityDiscoveryService
    \/ OpenDatabase
    \/ SpawnOverseer
    \/ StartNetwork
    \/ GateOpen
    \/ GateCancelled
    \/ Subscribe
    \/ SubscribePanic
    \/ EmitBest
    \/ EmitFinalized
    \/ CloseBest
    \/ CloseFinalized
    \/ BestItem
    \/ BestEnd
    \/ FinItem
    \/ FinEnd
    \/ NetworkStep

\* select! takes a ready branch pseudo-randomly, so a branch that stays ready
\* is eventually taken.
LoopFairness ==
    /\ WF_vars(BestItem)
    /\ WF_vars(BestEnd)
    /\ WF_vars(FinItem)
    /\ WF_vars(FinEnd)

(***************************************************************************)
(* Properties of the network driving loop and of the deferred start.       *)
(***************************************************************************)
CallsOf(op) == SelectSeq(calls, LAMBDA c : c.op = op)

\* the headers a stream has yielded so far: what was emitted minus what is pending
Yielded(emitted, pending) == SubSeq(emitted, 1, Len(emitted) - Len(pending))

\* C1: once the loop runs and the best-block stream is exhausted, the loop
\* reaches Stopped; from Stopped on it stays Stopped and makes no further
\* new_best_block_imported / on_block_finalized call and no network poll,
\* whatever is still pending on the finality stream.
C1_BestStreamEndStopsLoop ==
    /\ [][task = "Stopped" =>
            (task' = "Stopped" /\ calls' = calls /\ netPolls' = netPolls)]_vars
    /\ (task = "Running" /\ bestClosed /\ bestQ = <<>>) ~> (task = "Stopped")

C1_Witness ==
    /\ task = "Stopped"
    /\ finQ # <<>>
    /\ calls # <<>>

C3_DeferredStartGate ==
    starter # "fired" =>
        /\ task \in {"none", "gate", "ended"}
        /\ subscribed = <<>>
        /\ netPolls = 0
        /\ calls = <<>>

C3_Witness ==
    /\ task = "gate"
    /\ starter = "held"
    /\ nodePc = "start_network"

\* C4: when the start trigger is dropped unfired, build_collator_network has
\* returned Ok and nothing panics; the gated task either still waits or has
\* ended with the warning, it never subscribes, polls or notifies, and the
\* trigger stays dropped.
C4_DroppedStarterIsNotFatal ==
    /\ [](starter = "dropped" =>
            /\ buildResult = "ok"
            /\ nodePc # "panic"
            /\ task \in {"gate", "ended"}
            /\ (task = "ended") <=> warned
            /\ subscribed = <<>>
            /\ netPolls = 0
            /\ calls = <<>>)
    /\ [][starter = "dropped" => starter' = "dropped"]_vars

C4_Witness ==
    /\ starter = "dropped"
    /\ task = "ended"
    /\ warned

\* C5: the new_best_block_imported calls are, in order, one call (hash,
\* number) per header the best-block stream yielded, and the
\* on_block_finalized calls are, in order, one call per header the finality
\* stream yielded; pending headers are exactly the not yet yielded ones.
C5_PerStreamDeliveryOrder ==
    /\ Len(bestQ) <= Len(bestEmitted)
    /\ Len(finQ) <= Len(finEmitted)
    /\ bestEmitted = Yielded(bestEmitted, bestQ) \o bestQ
    /\ finEmitted = Yielded(finEmitted, finQ) \o finQ
    /\ CallsOf("new_best_block_imported") =
          [i \in 1..(Len(bestEmitted) - Len(bestQ)) |->
              [op |-> "new_best_block_imported",
               hash |-> bestEmitted[i].hash, number |-> bestEmitted[i].number]]
    /\ CallsOf("on_block_finalized") =
          [i \in 1..(Len(finEmitted) - Len(finQ)) |->
              [op |-> "on_block_finalized",
               hash |-> finEmitted[i].hash, number |-> finEmitted[i].number]]

C5_Witness ==
    /\ Len(CallsOf("new_best_block_imported")) >= 2
    /\ CallsOf("new_best_block_imported")[1] # CallsOf("new_best_block_imported")[2]
    /\ Len(CallsOf("on_block_finalized")) >= 1

\* C22: the loop stops only by exhaustion of a stream it consumes: when it
\* is Stopped the best-block stream had ended with nothing left pending, and
\* the step that leaves Running takes no item and completes no worker poll.
C22_StopsOnlyOnExhaustion ==
    /\ [](task = "Stopped" =>
            (IsSubscribed("best") /\ bestClosed /\ bestQ = <<>> /\ bestFused))
    /\ [][(task = "Running" /\ task' # "Running") =>
            /\ bestClosed /\ bestQ = <<>>
            /\ calls' = calls
            /\ netPolls' = netPolls
            /\ chainOnLoop' = chainOnLoop
            /\ bestQ' = bestQ
            /\ finQ' = finQ]_vars

\* the loop stopped after it had served items of both streams and worker polls
C22_Witness ==
    /\ task = "Stopped"
    /\ netPolls > 0
    /\ Len(CallsOf("new_best_block_imported")) >= 1
    /\ Len(CallsOf("on_block_finalized")) >= 1
    /\ ~finClosed

\* C23: a step of the network worker makes no new_best_block_imported or
\* on_block_finalized call, takes or loses no item of either stream, and
\* leaves the loop Running.
C23_NetworkStepFrame ==
    [][(netPolls' # netPolls \/ chainOnLoop' # chainOnLoop) =>
            /\ task = "Running"
            /\ task' = "Running"
            /\ calls' = calls
            /\ bestQ' = bestQ
            /\ finQ' = finQ
            /\ bestFused' = bestFused
            /\ finFused' = finFused
            /\ bestEmitted' = bestEmitted
            /\ finEmitted' = finEmitted]_vars

\* the worker was polled while items of both streams were pending and undelivered
C23_Witness ==
    /\ netPolls > 0
    /\ task = "Running"
    /\ calls = <<>>
    /\ bestQ # <<>>
    /\ finQ # <<>>
    /\ bestQ = bestEmitted
    /\ finQ = finEmitted

C25_NoInterStreamOrder ==
    /\ (task = "Running" /\ bestQ # <<>> /\ finQ # <<>>) =>
          (ENABLED BestItem /\ ENABLED FinItem)
    /\ (task = "Running" /\ bestQ # <<>>) => ENABLED BestItem
    /\ (task = "Running" /\ finQ # <<>>) => ENABLED FinItem

\* the finality header was delivered first, the best-block header after it,
\* and the next best-block header is deliverable with nothing pending on the
\* finality stream
C25_Witness ==
    /\ task = "Running"
    /\ Len(calls) = 2
    /\ Len(finEmitted) = 1
    /\ Len(bestEmitted) = 2
    /\ calls[1] = FinalizedCall(finEmitted[1])
    /\ calls[2] = NewBestCall(bestEmitted[1])
    /\ finQ = <<>>
    /\ bestQ # <<>>
    /\ ENABLED BestItem

\* C26: when opening the parachains database or spawning the overseer fails,
\* new_minimal_relay_chain returns the error with the start trigger dropped
\* unfired: the gated task can only end, it never runs the loop, and no
\* network notification call is made.
C26_FailedConstructionNeverStarts ==
    (nodePc = "err" /\ buildResult = "ok") =>
        /\ starter = "dropped"
        /\ task \in {"gate", "ended"}
        /\ task = "gate" => (ENABLED GateCancelled /\ ~ENABLED GateOpen)
        /\ subscribed = <<>>
        /\ calls = <<>>
        /\ netPolls = 0
        /\ ~chainOnLoop

\* spawning the overseer failed after the network had been built, and the
\* gated task has ended
C26_Witness ==
    /\ nodePc = "err"
    /\ buildResult = "ok"
    /\ authDisc
    /\ ~overseer
    /\ starter = "dropped"
    /\ task = "ended"
    /\ warned

\* C27: when constructing the network worker fails, build_collator_network
\* returns the error with no task spawned, no start channel created and no
\* start trigger returned; on success the one gated task and the one start
\* trigger come into being in that step, and never again.
C27_BuildFailsCleanly ==
    /\ [](buildResult = "err" =>
            (task = "none" /\ starter = "none" /\ nodePc = "err" /\ ~warned))
    /\ [](buildResult = "none" => (task = "none" /\ starter = "none"))
    /\ [](buildResult = "ok" => (task # "none" /\ starter # "none"))
    /\ [][(task' = "gate" /\ task # "gate") =>
            (buildResult = "none" /\ buildResult' = "ok")]_vars
    /\ [][(starter' = "held" /\ starter # "held") =>
            (buildResult = "none" /\ buildResult' = "ok")]_vars

\* NetworkWorker::new failed on the complete configuration
C27_Witness ==
    /\ buildResult = "err"
    /\ cfgAtBuild = [extraSets |-> TRUE, reqProtocols |-> NumRequestProtocols]
    /\ task = "none"
    /\ starter = "none"

\* C19: no synchronous operation of the adapter (header, number, info,
\* block_status) runs on the task of the driving loop, the calls of the
\* network worker that the loop polls included.
C19_BridgeNeverOnLoopTask ==
    ~chainOnLoop

\* C20: the peer-set extras and every request/response protocol config are in
\* the configuration the network is built from; the start trigger is fired
\* only after the network, the authority-discovery service and the overseer
\* exist; and the loop does nothing before all of that.
C20_StartupOrdering ==
    /\ buildResult # "none" =>
          cfgAtBuild = [extraSets |-> TRUE, reqProtocols |-> NumRequestProtocols]
    /\ starter = "fired" =>
          /\ buildResult = "ok"
          /\ authDisc
          /\ overseer
    /\ (task \notin {"none", "gate", "ended"} \/ subscribed # <<>>
            \/ calls # <<>> \/ netPolls > 0) =>
          /\ starter = "fired"
          /\ buildResult = "ok"
          /\ authDisc
          /\ overseer
          /\ nodePc = "ok"

\* the loop has handled its first notification, after the whole startup
C20_Witness ==
    /\ Len(calls) = 1
    /\ starter = "fired"
    /\ authDisc
    /\ overseer
    /\ cfgAtBuild = [extraSets |-> TRUE, reqProtocols |-> NumRequestProtocols]

(***************************************************************************)
(* import_notification_stream_async / finality_notification_stream_async:  *)
(* a subscription of Result<Header, Error> items, filter_map'ed into a     *)
(* stream of headers.                                                      *)
(***************************************************************************)
\* items the remote pushes on one subscription
MaxFeed == 3

StreamNames == {"import", "finality"}

NoHeader == [hash |-> 0, number |-> 0]

\* the header carried by the k-th notification of a subscription
HeaderAt(k) == [hash |-> HashOf(k), number |-> k]

OkItem(h) == [ok |-> TRUE, header |-> h]

ErrItem == [ok |-> FALSE, header |-> NoHeader]

StreamInit ==
    /\ streamSt = [s \in StreamNames |-> "unsubscribed"]
    /\ subItems = [s \in StreamNames |-> <<>>]
    /\ subClosed = [s \in StreamNames |-> FALSE]
    /\ subFed = [s \in StreamNames |-> <<>>]
    /\ out = [s \in StreamNames |-> <<>>]
    /\ errLogs = [s \in StreamNames |-> 0]

\* subscribe_*().await.expect(..).filter_map(..).boxed()
NotificationStreamAsync(s) ==
    /\ streamSt[s] = "unsubscribed"
    /\ \E ok \in BOOLEAN :
          streamSt' = [streamSt EXCEPT ![s] = IF ok THEN "subscribed" ELSE "panicked"]
    /\ UNCHANGED <<subItems, subClosed, subFed, out, errLogs>>
    /\ UNCHANGED nonStreamVars

ImportNotificationStreamAsync == NotificationStreamAsync("import")

FinalityNotificationStreamAsync == NotificationStreamAsync("finality")

\* the remote pushes one notification: a header, or a delivery error
PushNotification ==
    \E s \in StreamNames :
        /\ streamSt[s] = "subscribed"
        /\ ~subClosed[s]
        /\ Len(subFed[s]) < MaxFeed
        /\ \E ok \in BOOLEAN :
              LET item == IF ok THEN OkItem(HeaderAt(Len(subFed[s]) + 1)) ELSE ErrItem
              IN  /\ subItems' = [subItems EXCEPT ![s] = Append(@, item)]
                  /\ subFed' = [subFed EXCEPT ![s] = Append(@, item)]
        /\ UNCHANGED <<streamSt, subClosed, out, errLogs>>
        /\ UNCHANGED nonStreamVars

\* the underlying push channel closes (fatal subscription failure)
CloseSubscription ==
    \E s \in StreamNames :
        /\ streamSt[s] = "subscribed"
        /\ ~subClosed[s]
        /\ subClosed' = [subClosed EXCEPT ![s] = TRUE]
        /\ UNCHANGED <<streamSt, subItems, subFed, out, errLogs>>
        /\ UNCHANGED nonStreamVars

\* Mutation: an error item ends the stream.
FilterMapPoll_EndOnError(items, closed) ==
    IF items = <<>>
    THEN [kind |-> IF closed THEN "end" ELSE "pending",
          header |-> NoHeader, rest |-> <<>>, dropped |-> 0]
    ELSE IF Head(items).ok
    THEN [kind |-> "item", header |-> Head(items).header,
          rest |-> Tail(items), dropped |-> 0]
    ELSE [kind |-> "end", header |-> NoHeader, rest |-> Tail(items), dropped |-> 1]

RECURSIVE FilterMapPoll_SkipAfterError(_, _)
\* Mutation: an error item also swallows the notification that follows it.
FilterMapPoll_SkipAfterError(items, closed) ==
    IF items = <<>>
    THEN [kind |-> IF closed THEN "end" ELSE "pending",
          header |-> NoHeader, rest |-> <<>>, dropped |-> 0]
    ELSE IF Head(items).ok
    THEN [kind |-> "item", header |-> Head(items).header,
          rest |-> Tail(items), dropped |-> 0]
    ELSE LET after == IF Len(items) >= 2 THEN Tail(Tail(items)) ELSE <<>>
             r == FilterMapPoll_SkipAfterError(after, closed)
         IN  [r EXCEPT !.dropped = @ + 1]

RECURSIVE FilterMapPoll(_, _)
\* One poll of the filter_map'ed stream: error items are logged and dropped
\* (item.map_err(log).ok() is None) until a header, the end of the
\* subscription, or an empty open subscription is met.
FilterMapPoll(items, closed) ==
    IF items = <<>>
    THEN [kind |-> IF closed THEN "end" ELSE "pending",
          header |-> NoHeader, rest |-> <<>>, dropped |-> 0]
    ELSE IF Head(items).ok
    THEN [kind |-> "item", header |-> Head(items).header,
          rest |-> Tail(items), dropped |-> 0]
    ELSE LET r == FilterMapPoll(Tail(items), closed)
         IN  [r EXCEPT !.dropped = @ + 1]

\* the consumer polls stream.next()
PollNext ==
    \E s \in StreamNames :
        /\ streamSt[s] = "subscribed"
        /\ subItems[s] # <<>> \/ subClosed[s]
        /\ LET r == FilterMapPoll(subItems[s], subClosed[s])
           IN  /\ subItems' = [subItems EXCEPT ![s] = r.rest]
               /\ errLogs' = [errLogs EXCEPT ![s] = @ + r.dropped]
               /\ out' = [out EXCEPT ![s] =
                            IF r.kind = "item" THEN Append(@, r.header) ELSE @]
               /\ streamSt' = [streamSt EXCEPT ![s] =
                            IF r.kind = "end" THEN "ended" ELSE @]
        /\ UNCHANGED <<subClosed, subFed>>
        /\ UNCHANGED nonStreamVars

StreamNext ==
    \/ ImportNotificationStreamAsync
    \/ FinalityNotificationStreamAsync
    \/ PushNotification
    \/ CloseSubscription
    \/ PollNext

(***************************************************************************)
(* Properties of the notification streams.                                 *)
(***************************************************************************)
RECURSIVE GoodHeaders(_)
\* the headers of the Ok items of a sequence of notifications, in order
GoodHeaders(items) ==
    IF items = <<>> THEN <<>>
    ELSE IF Head(items).ok
    THEN <<Head(items).header>> \o GoodHeaders(Tail(items))
    ELSE GoodHeaders(Tail(items))

NumErrors(items) == Cardinality({i \in 1..Len(items) : ~items[i].ok})

\* C6: error items are dropped without ending the stream: what the stream
\* has yielded, followed by the good headers still buffered, is the sequence
\* of good headers pushed, in their order; with one error among N pushed
\* notifications, all consumed, exactly N-1 headers were yielded; an error
\* item never ends the stream.
C6_ErrorItemsDropped ==
    \A s \in StreamNames :
        /\ out[s] \o GoodHeaders(subItems[s]) = GoodHeaders(subFed[s])
        /\ (NumErrors(subFed[s]) = 1 /\ subItems[s] = <<>>) =>
              Len(out[s]) = Len(subFed[s]) - 1
        /\ errLogs[s] + NumErrors(subItems[s]) = NumErrors(subFed[s])
        /\ (~subClosed[s]) => streamSt[s] # "ended"

C6_Witness ==
    \E s \in StreamNames :
        /\ Len(subFed[s]) = 3
        /\ ~subFed[s][2].ok
        /\ NumErrors(subFed[s]) = 1
        /\ subItems[s] = <<>>
        /\ out[s] = <<HeaderAt(1), HeaderAt(3)>>
        /\ streamSt[s] = "subscribed"

\* C7: the consumer sees the closing of the push channel only as the end of
\* that stream: a stream ends only when its channel is closed and drained,
\* it never yields anything but pushed headers, yields nothing after its
\* end, and the closing of one channel changes nothing of the other stream.
C7_FatalFailureIsExhaustion ==
    /\ [](\A s \in StreamNames :
            /\ streamSt[s] = "ended" => (subClosed[s] /\ subItems[s] = <<>>)
            /\ \A i \in 1..Len(out[s]) :
                  \E k \in 1..Len(subFed[s]) : subFed[s][k] = OkItem(out[s][i]))
    /\ [][\A s \in StreamNames :
            /\ streamSt[s] = "ended" => (streamSt'[s] = "ended" /\ out'[s] = out[s])
            /\ subClosed'[s] # subClosed[s] =>
                  \A t \in StreamNames \ {s} :
                      /\ streamSt'[t] = streamSt[t]
                      /\ subItems'[t] = subItems[t]
                      /\ subClosed'[t] = subClosed[t]
                      /\ out'[t] = out[t]]_vars

C7_Witness ==
    \E s \in StreamNames : \E t \in StreamNames \ {s} :
        /\ streamSt[s] = "ended"
        /\ NumErrors(subFed[s]) >= 1
        /\ out[s] # <<>>
        /\ streamSt[t] = "subscribed"
        /\ ~subClosed[t]
        /\ out[t] # <<>>

(***************************************************************************)
(* BlockChainRPCClient as blockchain backend and as runtime client.        *)
(***************************************************************************)
\* height the remote chain may grow to
MaxHeight == 2

\* hashes a caller may ask for: the remote's blocks and one hash beyond them
AskHashes == {HashOf(n) : n \in 0..(MaxHeight + 1)}

BlockIdHash(h) == [kind |-> "Hash", v |-> h]

BlockIdNumber(n) == [kind |-> "Number", v |-> n]

BlockIds == {BlockIdHash(h) : h \in AskHashes} \cup {BlockIdNumber(n) : n \in 0..MaxHeight}

NoId == [kind |-> "None", v |-> 0]

\* rpc_client.chain_get_header(Some(hash)) against the remote's chain
RemoteHeader(hash) ==
    IF \E n \in 0..remoteBest : HashOf(n) = hash
    THEN [some |-> TRUE, header |-> [hash |-> hash, number |-> hash - HashOf(0)]]
    ELSE [some |-> FALSE, header |-> NoHeader]

OkSome(h) == [kind |-> "ok", value |-> "Some", header |-> h]

OkNone == [kind |-> "ok", value |-> "None", header |-> NoHeader]

OkValue(v) == [kind |-> "ok", value |-> v, header |-> NoHeader]

ErrResult(e) == [kind |-> "err", value |-> e, header |-> NoHeader]

\* unimplemented!(), todo!(), expect() of an Err: the calling thread unwinds
PanicResult(msg) == [kind |-> "panic", value |-> msg, header |-> NoHeader]

\* one remote call: "ok" (a value), "none" (no header) or "err" (the call failed)
RpcCall(method, hash, outcome) == [method |-> method, hash |-> hash, outcome |-> outcome]

\* rpc_client.chain_get_header(Some(hash)).await
ChainGetHeader(hash, transportOk) ==
    IF ~transportOk THEN [outcome |-> "err", header |-> NoHeader]
    ELSE IF RemoteHeader(hash).some
    THEN [outcome |-> "ok", header |-> RemoteHeader(hash).header]
    ELSE [outcome |-> "none", header |-> NoHeader]

\* header(BlockId::Hash(hash)): block_on(..).map_err(Backend)
HeaderResult(hash, transportOk) ==
    LET r == ChainGetHeader(hash, transportOk)
    IN  IF r.outcome = "err" THEN ErrResult("Backend")
        ELSE IF r.outcome = "ok" THEN OkSome(r.header)
        ELSE OkNone

\* Mutation: every hash the remote answered for is reported in chain.
BlockStatusResult_AlwaysInChain(hash, transportOk) ==
    LET r == ChainGetHeader(hash, transportOk)
    IN  IF r.outcome = "err" THEN PanicResult("get_header")
        ELSE OkValue("InChainWithState")

\* block_status(&BlockId::Hash(hash)): block_local(..).expect("get_header")
BlockStatusResult(hash, transportOk) ==
    LET r == ChainGetHeader(hash, transportOk)
    IN  IF r.outcome = "err" THEN PanicResult("get_header")
        ELSE IF r.outcome = "ok" THEN OkValue("InChainWithState")
        ELSE OkValue("Unknown")

\* Mutation: finalized_number is taken from the best header.
Info_FinalizedNumberOfBest(bestHeader, genesisHash, finalizedHead, finalizedHeader) ==
    [best_hash |-> bestHeader.hash, best_number |-> bestHeader.number,
     genesis_hash |-> genesisHash, finalized_hash |-> finalizedHead,
     finalized_number |-> bestHeader.number, number_leaves |-> 1]

\* sp_blockchain::Info; finalized_state and block_gap are None
Info(bestHeader, genesisHash, finalizedHead, finalizedHeader) ==
    [best_hash |-> bestHeader.hash, best_number |-> bestHeader.number,
     genesis_hash |-> genesisHash, finalized_hash |-> finalizedHead,
     finalized_number |-> finalizedHeader.number, number_leaves |-> 1]

\* no Info has been returned
NoInfo ==
    [best_hash |-> 0, best_number |-> 0, genesis_hash |-> 0,
     finalized_hash |-> 0, finalized_number |-> 0, number_leaves |-> 0]

\* the local variables of info() before its first sub-query
NoLocals == [best_header |-> NoHeader, genesis_hash |-> 0, finalized_head |-> 0]

AdapterInit ==
    /\ remoteBest = 0
    /\ remoteFin = 0
    /\ caller = "alive"
    /\ lastCall = [op |-> "none", id |-> NoId]
    /\ lastResult = [kind |-> "none", value |-> "none", header |-> NoHeader]
    /\ rpcTrace = <<>>
    /\ infoPc = "idle"
    /\ infoLocals = NoLocals
    /\ infoSnap = NoInfo
    /\ remoteMoved = FALSE

\* the remote node imports a block
RemoteImportBlock ==
    /\ remoteBest < MaxHeight
    /\ remoteBest' = remoteBest + 1
    /\ remoteMoved' = TRUE
    /\ UNCHANGED <<remoteFin, caller, lastCall, lastResult, rpcTrace>>
    /\ UNCHANGED <<infoPc, infoLocals, infoSnap>>
    /\ UNCHANGED nonAdapterVars

\* the remote node finalizes a block
RemoteFinalizeBlock ==
    /\ remoteFin < remoteBest
    /\ remoteFin' = remoteFin + 1
    /\ remoteMoved' = TRUE
    /\ UNCHANGED <<remoteBest, caller, lastCall, lastResult, rpcTrace>>
    /\ UNCHANGED <<infoPc, infoLocals, infoSnap>>
    /\ UNCHANGED nonAdapterVars

\* HeaderBackend::header
HeaderCall ==
    /\ caller = "alive"
    /\ \E id \in BlockIds, transportOk \in BOOLEAN :
          /\ lastCall' = [op |-> "header", id |-> id]
          /\ IF id.kind = "Hash"
             THEN /\ rpcTrace' = <<RpcCall("chain_get_header", id.v,
                                            ChainGetHeader(id.v, transportOk).outcome)>>
                  /\ lastResult' = HeaderResult(id.v, transportOk)
                  /\ caller' = caller
             ELSE /\ rpcTrace' = <<>>
                  /\ lastResult' = PanicResult("header with number not supported")
                  /\ caller' = "panicked"
    /\ UNCHANGED <<remoteBest, remoteFin, infoVars>>
    /\ UNCHANGED nonAdapterVars

\* BlockBackend::block_status
BlockStatusCall ==
    /\ caller = "alive"
    /\ \E id \in BlockIds, transportOk \in BOOLEAN :
          /\ lastCall' = [op |-> "block_status", id |-> id]
          /\ IF id.kind = "Hash"
             THEN /\ rpcTrace' = <<RpcCall("chain_get_header", id.v,
                                            ChainGetHeader(id.v, transportOk).outcome)>>
                  /\ lastResult' = BlockStatusResult(id.v, transportOk)
                  /\ caller' = IF transportOk THEN caller ELSE "panicked"
             ELSE /\ rpcTrace' = <<>>
                  /\ lastResult' = PanicResult("Not supported blockId::number, block_status")
                  /\ caller' = "panicked"
    /\ UNCHANGED <<remoteBest, remoteFin, infoVars>>
    /\ UNCHANGED nonAdapterVars

\* Option<Number> of a header: Ok(Some(number))
OkNumber(n) == [kind |-> "ok", value |-> "SomeNumber", header |-> [hash |-> 0, number |-> n]]

\* Mutation: a failed remote call is reported as an unknown hash.
NumberResult_ErrorIsNone(hash, transportOk) ==
    LET r == ChainGetHeader(hash, transportOk)
    IN  IF r.outcome = "ok" THEN OkNumber(r.header.number) ELSE OkNone

\* number(hash): block_local(..).map_err(Backend).map(|h| h.map(|header| header.number))
NumberResult(hash, transportOk) ==
    LET r == ChainGetHeader(hash, transportOk)
    IN  IF r.outcome = "err" THEN ErrResult("Backend")
        ELSE IF r.outcome = "ok" THEN OkNumber(r.header.number)
        ELSE OkNone

\* HeaderBackend::number
NumberCall ==
    /\ caller = "alive"
    /\ \E hash \in AskHashes, transportOk \in BOOLEAN :
          /\ lastCall' = [op |-> "number", id |-> BlockIdHash(hash)]
          /\ rpcTrace' = <<RpcCall("chain_get_header", hash,
                                   ChainGetHeader(hash, transportOk).outcome)>>
          /\ lastResult' = NumberResult(hash, transportOk)
    /\ UNCHANGED <<remoteBest, remoteFin, caller, infoVars>>
    /\ UNCHANGED nonAdapterVars

\* what a sub-query of info() may come back with
HeaderOutcomes == {"ok", "none", "err"}

HashOutcomes == {"ok", "err"}

\* info() is running and has not returned
InfoPending == [kind |-> "pending", value |-> "none", header |-> NoHeader]

\* Mutation: a failed sub-query is replaced by a default and info() returns
\* what it has gathered so far.
InfoPanics_ReturnsPartial(msg) ==
    /\ lastResult' = OkValue("Info")
    /\ caller' = "alive"
    /\ infoPc' = "idle"
    /\ infoLocals' = NoLocals
    /\ infoSnap' = Info(infoLocals.best_header, infoLocals.genesis_hash,
                        infoLocals.finalized_head, NoHeader)

\* .expect(msg) of an Err, .unwrap() of a None: info() unwinds, its locals
\* are dropped and no Info is built
InfoPanics(msg) ==
    /\ lastResult' = PanicResult(msg)
    /\ caller' = "panicked"
    /\ infoPc' = "idle"
    /\ infoLocals' = NoLocals
    /\ infoSnap' = NoInfo

\* info(): let best_header = block_local(chain_get_header(None)).expect("get_header").unwrap()
InfoBestHeader ==
    /\ caller = "alive"
    /\ lastCall' = [op |-> "info", id |-> NoId]
    /\ remoteMoved' = FALSE
    /\ \E outcome \in HeaderOutcomes :
          /\ rpcTrace' = <<RpcCall("chain_get_header", 0, outcome)>>
          /\ IF outcome = "err" THEN InfoPanics("get_header")
             ELSE IF outcome = "none" THEN InfoPanics("unwrap on None")
             ELSE /\ infoLocals' = [NoLocals EXCEPT !.best_header =
                                       [hash |-> HashOf(remoteBest), number |-> remoteBest]]
                  /\ infoPc' = "genesis_hash"
                  /\ caller' = "in_info"
                  /\ lastResult' = InfoPending
                  /\ infoSnap' = NoInfo
    /\ UNCHANGED <<remoteBest, remoteFin>>
    /\ UNCHANGED nonAdapterVars

\* info(): let genesis_hash = block_local(chain_get_head(Some(0))).expect("get_head")
InfoGenesisHash ==
    /\ caller = "in_info"
    /\ infoPc = "genesis_hash"
    /\ \E outcome \in HashOutcomes :
          /\ rpcTrace' = Append(rpcTrace, RpcCall("chain_get_head", 0, outcome))
          /\ IF outcome = "err" THEN InfoPanics("get_head")
             ELSE /\ infoLocals' = [infoLocals EXCEPT !.genesis_hash = HashOf(0)]
                  /\ infoPc' = "finalized_head"
                  /\ UNCHANGED <<caller, lastResult, infoSnap>>
    /\ UNCHANGED <<remoteBest, remoteFin, lastCall, remoteMoved>>
    /\ UNCHANGED nonAdapterVars

\* info(): let finalized_head = block_local(chain_get_finalized_head()).expect("get_head")
InfoFinalizedHead ==
    /\ caller = "in_info"
    /\ infoPc = "finalized_head"
    /\ \E outcome \in HashOutcomes :
          /\ rpcTrace' = Append(rpcTrace, RpcCall("chain_get_finalized_head", 0, outcome))
          /\ IF outcome = "err" THEN InfoPanics("get_head")
             ELSE /\ infoLocals' = [infoLocals EXCEPT !.finalized_head = HashOf(remoteFin)]
                  /\ infoPc' = "finalized_header"
                  /\ UNCHANGED <<caller, lastResult, infoSnap>>
    /\ UNCHANGED <<remoteBest, remoteFin, lastCall, remoteMoved>>
    /\ UNCHANGED nonAdapterVars

\* info(): let finalized_header =
\*     block_local(chain_get_header(Some(finalized_head))).expect("get_head").unwrap();
\* then sp_blockchain::Info { .. } is built and returned
InfoFinalizedHeader ==
    /\ caller = "in_info"
    /\ infoPc = "finalized_header"
    /\ \E outcome \in HeaderOutcomes :
          /\ rpcTrace' = Append(rpcTrace,
                RpcCall("chain_get_header", infoLocals.finalized_head, outcome))
          /\ IF outcome = "err" THEN InfoPanics("get_head")
             ELSE IF outcome = "none" THEN InfoPanics("unwrap on None")
             ELSE /\ infoSnap' = Info(infoLocals.best_header, infoLocals.genesis_hash,
                                      infoLocals.finalized_head,
                                      RemoteHeader(infoLocals.finalized_head).header)
                  /\ lastResult' = OkValue("Info")
                  /\ caller' = "alive"
                  /\ infoPc' = "idle"
                  /\ infoLocals' = NoLocals
    /\ UNCHANGED <<remoteBest, remoteFin, lastCall, remoteMoved>>
    /\ UNCHANGED nonAdapterVars

\* operations addressed by a block number
NumberOps == {"hash", "block_hash"}

\* operations addressed by a hash
HashOps == {"verify_range_proof", "indexed_transaction", "header_metadata",
            "insert_header_metadata", "remove_header_metadata"}

\* operations addressed by a BlockId
BlockIdOps == {"status", "read_proof", "read_child_proof", "execution_proof",
               "read_proof_collection", "storage_collection", "block_body",
               "block_indexed_body", "block", "justifications"}

\* every operation of HeaderBackend, ProofProvider, BlockBackend and
\* HeaderMetadata whose body is unimplemented!()
UnimplementedOps == NumberOps \cup HashOps \cup BlockIdOps

OpArgs(op) ==
    IF op \in NumberOps THEN {id \in BlockIds : id.kind = "Number"}
    ELSE IF op \in HashOps THEN {id \in BlockIds : id.kind = "Hash"}
    ELSE BlockIds

UnimplementedCall ==
    /\ caller = "alive"
    /\ \E op \in UnimplementedOps : \E id \in OpArgs(op) :
          lastCall' = [op |-> op, id |-> id]
    /\ rpcTrace' = <<>>
    /\ lastResult' = PanicResult("not implemented")
    /\ caller' = "panicked"
    /\ UNCHANGED <<remoteBest, remoteFin, infoVars>>
    /\ UNCHANGED nonAdapterVars

\* OverseerRuntimeClient methods that forward to the remote
DelegatingQueries ==
    {"validators", "validator_groups", "availability_cores",
     "persisted_validation_data", "assumed_validation_data",
     "check_validation_outputs", "session_index_for_child", "validation_code",
     "candidate_pending_availability", "candidate_events", "dmq_contents",
     "inbound_hrmp_channels_contents", "validation_code_by_hash", "session_info",
     "validation_code_hash", "api_version_parachain_host", "staging_get_disputes"}

\* OverseerRuntimeClient methods whose body is unimplemented!()
UnimplementedQueries ==
    {"on_chain_votes", "session_info_before_version_2",
     "submit_pvf_check_statement", "pvfs_require_precheck", "configuration",
     "current_epoch_start", "current_epoch", "next_epoch",
     "generate_key_ownership_proof",
     "submit_report_equivocation_unsigned_extrinsic", "authorities"}

RuntimeQueries == DelegatingQueries \cup UnimplementedQueries

\* the remote method a query forwards to: parachain_host_<query>, and
\* runtime_version for api_version_parachain_host
RpcMethodOf(q) == IF q = "api_version_parachain_host" THEN "runtime_version" ELSE q

OnlyHashSupported == "Application(GenericError(Only hash is supported for RPC methods))"

\* .map_err(|e| sp_api::ApiError::Application(Box::new(e))) of a failed remote call
RemoteCallFailed == "Application(RelayChainError)"

\* the sp_api::ApiError variant an error value of a runtime query is built with
ApiErrorVariant(e) ==
    IF e = OnlyHashSupported THEN "Application"
    ELSE IF e = RemoteCallFailed THEN "Application"
    ELSE "none"

\* what a forwarding query returns for a pointer and an outcome of the remote call
RuntimeQueryResult(at, transportOk) ==
    IF at.kind = "Hash"
    THEN IF transportOk THEN OkValue("response") ELSE ErrResult(RemoteCallFailed)
    ELSE ErrResult(OnlyHashSupported)

\* if let BlockId::Hash(hash) = at { rpc.await.map_err(Application) } else { Err(..) }
RuntimeQueryCall ==
    /\ caller = "alive"
    /\ \E q \in DelegatingQueries, at \in BlockIds, transportOk \in BOOLEAN :
          /\ lastCall' = [op |-> q, id |-> at]
          /\ IF at.kind = "Hash"
             THEN /\ rpcTrace' = <<RpcCall(RpcMethodOf(q), at.v,
                                            IF transportOk THEN "ok" ELSE "err")>>
                  /\ lastResult' = RuntimeQueryResult(at, transportOk)
             ELSE /\ rpcTrace' = <<>>
                  /\ lastResult' = RuntimeQueryResult(at, transportOk)
    /\ UNCHANGED <<remoteBest, remoteFin, caller, infoVars>>
    /\ UNCHANGED nonAdapterVars

\* async fn .. { unimplemented!() }
UnimplementedQueryCall ==
    /\ caller = "alive"
    /\ \E q \in UnimplementedQueries, at \in BlockIds :
          lastCall' = [op |-> q, id |-> at]
    /\ rpcTrace' = <<>>
    /\ lastResult' = PanicResult("not implemented")
    /\ caller' = "panicked"
    /\ UNCHANGED <<remoteBest, remoteFin, infoVars>>
    /\ UNCHANGED nonAdapterVars

AdapterNext ==
    \/ RemoteImportBlock
    \/ RemoteFinalizeBlock
    \/ HeaderCall
    \/ BlockStatusCall
    \/ NumberCall
    \/ InfoBestHeader
    \/ InfoGenesisHash
    \/ InfoFinalizedHead
    \/ InfoFinalizedHeader
    \/ UnimplementedCall
    \/ RuntimeQueryCall
    \/ UnimplementedQueryCall

(***************************************************************************)
(* Properties of the adapter.                                              *)
(***************************************************************************)
\* C8: a number-addressed header / block_status / hash / block_hash request
\* returns an unsupported-operation error value to the caller, without a
\* remote call and without aborting the calling thread.
C8_NumberAddressedIsTypedError ==
    (lastCall.op \in {"header", "block_status", "hash", "block_hash"}
        /\ lastCall.id.kind = "Number") =>
        /\ lastResult.kind = "err"
        /\ caller = "alive"
        /\ rpcTrace = <<>>

\* C9: status, block_body, block, justifications, the proof-provider and the
\* header-metadata operations return a typed "not implemented" error for
\* every argument and leave the caller able to go on using the adapter.
C9_UnsupportedIsTypedError ==
    lastCall.op \in (HashOps \cup BlockIdOps) =>
        /\ lastResult.kind = "err"
        /\ caller = "alive"

\* C10: every query of the runtime-client interface returns an error without
\* a remote call when the pointer is not a hash, and issues exactly one
\* remote call, for that hash, when it is.
C10_HashOnlyContract ==
    lastCall.op \in RuntimeQueries =>
        IF lastCall.id.kind = "Hash"
        THEN /\ Len(rpcTrace) = 1
             /\ rpcTrace[1].hash = lastCall.id.v
        ELSE /\ lastResult.kind = "err"
             /\ rpcTrace = <<>>

\* The queries that forward to the remote do keep the hash-only contract.
DelegatingQueriesKeepHashOnlyContract ==
    lastCall.op \in DelegatingQueries =>
        IF lastCall.id.kind = "Hash"
        THEN /\ \E outcome \in {"ok", "err"} :
                   rpcTrace = <<RpcCall(RpcMethodOf(lastCall.op), lastCall.id.v, outcome)>>
             /\ lastResult.kind \in {"ok", "err"}
        ELSE /\ lastResult = ErrResult(OnlyHashSupported)
             /\ rpcTrace = <<>>

\* C11: against a remote whose chain does not change during the call, info()
\* returns the hash and number of the remote's best header, the hash of the
\* block at height 0, the remote's finalized head and the number of the
\* header of that finalized head.
C11_InfoComposesSnapshot ==
    (lastCall.op = "info" /\ lastResult = OkValue("Info") /\ ~remoteMoved) =>
        /\ infoSnap.best_hash = HashOf(remoteBest)
        /\ infoSnap.best_number = remoteBest
        /\ infoSnap.genesis_hash = HashOf(0)
        /\ infoSnap.finalized_hash = HashOf(remoteFin)
        /\ infoSnap.finalized_number = remoteFin

\* info() has returned against a stable remote with best above finalized
\* above genesis
C11_Witness ==
    /\ lastCall.op = "info"
    /\ lastResult = OkValue("Info")
    /\ ~remoteMoved
    /\ remoteFin = 1
    /\ remoteBest = 2
    /\ infoSnap = Info([hash |-> HashOf(2), number |-> 2], HashOf(0), HashOf(1),
                       [hash |-> HashOf(1), number |-> 1])

\* C12: the snapshot info() returns has finalized_number <= best_number, also
\* when the remote's best and finalized heads advance between the sub-queries
\* of one info() call (the remote itself never has finalized above best).
C12_InfoInternallyConsistent ==
    (lastCall.op = "info" /\ lastResult = OkValue("Info")) =>
        infoSnap.finalized_number <= infoSnap.best_number

\* The remote chain itself never has its finalized head above its best head.
RemoteFinalizedNeverAboveBest == remoteFin <= remoteBest

\* C13: a failed remote call makes the adapter operation that issued it
\* return an error value: the caller is not aborted, no success is reported,
\* and the failed call is the last one the operation attempts.
C13_TransportErrorIsTypedError ==
    \A i \in DOMAIN rpcTrace :
        rpcTrace[i].outcome = "err" =>
            /\ lastResult.kind = "err"
            /\ caller # "panicked"
            /\ i = Len(rpcTrace)

\* C14: info() has no partial result: when a sub-query fails or reports no
\* header no Info is produced, and an Info is produced only after all four
\* sub-queries have answered.
C14_InfoNoPartialResult ==
    lastCall.op = "info" =>
        /\ (\E i \in DOMAIN rpcTrace : rpcTrace[i].outcome # "ok") =>
               /\ infoSnap = NoInfo
               /\ lastResult.kind = "panic"
        /\ (infoSnap # NoInfo \/ lastResult.kind = "ok") =>
               /\ Len(rpcTrace) = 4
               /\ \A i \in DOMAIN rpcTrace : rpcTrace[i].outcome = "ok"
               /\ lastResult = OkValue("Info")
               /\ infoSnap # NoInfo

\* the fourth sub-query of info() reported no header after three had answered
C14_Witness ==
    /\ lastCall.op = "info"
    /\ Len(rpcTrace) = 4
    /\ rpcTrace[3].outcome = "ok"
    /\ rpcTrace[4].outcome = "none"
    /\ infoSnap = NoInfo

\* C15: against the same remote state and the same outcome of the remote
\* call, number(hash) is Some(n) exactly when header(hash) is Some(h) with
\* h.number = n, None exactly when header(hash) is None, and a backend error
\* exactly when header(hash) is a backend error.
C15_NumberAgreesWithHeader ==
    /\ \A hash \in AskHashes, transportOk \in BOOLEAN :
          LET n == NumberResult(hash, transportOk)
              h == HeaderResult(hash, transportOk)
          IN  /\ n.kind = h.kind
              /\ (n.value = "SomeNumber") <=> (h.value = "Some")
              /\ h.value = "Some" => n.header.number = h.header.number
              /\ (n = OkNone) <=> (h = OkNone)
              /\ (n.kind = "err") => n = h
    /\ (lastCall.op = "number" /\ lastResult.value = "SomeNumber") =>
          /\ HeaderResult(lastCall.id.v, TRUE).value = "Some"
          /\ HeaderResult(lastCall.id.v, TRUE).header.number = lastResult.header.number

\* number(hash) returned the number of a block above genesis
C15_Witness ==
    /\ lastCall = [op |-> "number", id |-> BlockIdHash(HashOf(2))]
    /\ lastResult = OkNumber(2)
    /\ HeaderResult(HashOf(2), TRUE) = OkSome([hash |-> HashOf(2), number |-> 2])

\* C16: block_status(hash) is "in chain with state" exactly when the remote
\* returns some header for the hash and "unknown" when it returns none; no
\* other status is produced.
C16_BlockStatusCoarse ==
    /\ \A hash \in AskHashes :
          BlockStatusResult(hash, TRUE) =
              IF RemoteHeader(hash).some
              THEN OkValue("InChainWithState") ELSE OkValue("Unknown")
    /\ \A hash \in AskHashes, transportOk \in BOOLEAN :
          BlockStatusResult(hash, transportOk).kind = "ok" =>
              BlockStatusResult(hash, transportOk).value \in {"InChainWithState", "Unknown"}
    /\ (lastCall.op = "block_status" /\ lastResult.kind = "ok") =>
          /\ lastResult.value \in {"InChainWithState", "Unknown"}
          /\ lastResult.value = "InChainWithState" => RemoteHeader(lastCall.id.v).some
          /\ ~RemoteHeader(lastCall.id.v).some => lastResult.value = "Unknown"

\* block_status answered "unknown" for a hash the remote has no header of
C16_Witness ==
    /\ lastCall = [op |-> "block_status", id |-> BlockIdHash(HashOf(2))]
    /\ lastResult = OkValue("Unknown")
    /\ remoteBest = 1
    /\ rpcTrace = <<RpcCall("chain_get_header", HashOf(2), "none")>>

\* C21: for every runtime-client query the error returned for a pointer that
\* is not a hash differs, in value and in error kind, from the error returned
\* when the remote call of the same query fails.
C21_UnsupportedDistinctFromTransport ==
    (lastCall.op \in DelegatingQueries /\ lastCall.id.kind # "Hash") =>
        \A hash \in AskHashes :
            LET transport == RuntimeQueryResult(BlockIdHash(hash), FALSE)
            IN  /\ lastResult.kind = "err"
                /\ transport.kind = "err"
                /\ lastResult # transport
                /\ ApiErrorVariant(lastResult.value) # ApiErrorVariant(transport.value)

\* Both errors are built with ApiError::Application.
UnsupportedAndTransportAreApplication ==
    (lastCall.op \in DelegatingQueries /\ lastResult.kind = "err") =>
        ApiErrorVariant(lastResult.value) = "Application"

(***************************************************************************)
(* The blocking bridge: synchronous adapter operations called from tasks   *)
(* that run on the worker threads of the node's multi-threaded runtime.    *)
(***************************************************************************)
\* worker threads (cores) of the runtime; as many concurrent callers
NumWorkers == 2

Callers == 1..NumWorkers

\* remote calls an operation makes, one after the other
SubQueries(op) == IF op = "info" THEN 4 ELSE 1

\* worker cores no caller's thread is holding
FreeCores == NumWorkers - Cardinality({c \in Callers : bCore[c]})

BridgeInit ==
    /\ bOp = [c \in Callers |-> "none"]
    /\ bSt = [c \in Callers |-> "idle"]
    /\ bCore = [c \in Callers |-> FALSE]
    /\ bLeft = [c \in Callers |-> 0]

\* a task running on a worker thread calls a synchronous operation
CallSync(c) ==
    /\ bSt[c] = "idle"
    /\ FreeCores > 0
    /\ \E op \in SyncOps :
          /\ bOp' = [bOp EXCEPT ![c] = op]
          /\ bLeft' = [bLeft EXCEPT ![c] = SubQueries(op)]
    /\ bSt' = [bSt EXCEPT ![c] = "running"]
    /\ bCore' = [bCore EXCEPT ![c] = TRUE]
    /\ UNCHANGED nonBridgeVars

\* Mutation: the future is blocked on without block_in_place.
BlockLocal_KeepsCore(c) ==
    /\ bSt[c] = "running"
    /\ bOp[c] \in BlockLocalOps
    /\ bSt' = [bSt EXCEPT ![c] = "waiting"]
    /\ UNCHANGED <<bOp, bCore, bLeft>>
    /\ UNCHANGED nonBridgeVars

\* block_local: tokio::task::block_in_place hands the thread's worker core to
\* another thread, then Handle::block_on(fut) parks the thread on the future
BlockLocal(c) ==
    /\ bSt[c] = "running"
    /\ bOp[c] \in BlockLocalOps
    /\ bSt' = [bSt EXCEPT ![c] = "waiting"]
    /\ bCore' = [bCore EXCEPT ![c] = FALSE]
    /\ UNCHANGED <<bOp, bLeft>>
    /\ UNCHANGED nonBridgeVars

\* header: futures::executor::block_on(fut) parks the thread on the future;
\* the thread keeps its worker core
BlockOn(c) ==
    /\ bSt[c] = "running"
    /\ bOp[c] \in BlockOnOps
    /\ bSt' = [bSt EXCEPT ![c] = "waiting"]
    /\ UNCHANGED <<bOp, bCore, bLeft>>
    /\ UNCHANGED nonBridgeVars

\* the runtime runs the remote client's connection task on a free worker
\* core: the remote call of a waiting caller is sent and answered
RpcServe(c) ==
    /\ bSt[c] = "waiting"
    /\ FreeCores > 0
    /\ bSt' = [bSt EXCEPT ![c] = "answered"]
    /\ UNCHANGED <<bOp, bCore, bLeft>>
    /\ UNCHANGED nonBridgeVars

\* the parked thread wakes up with the answer: the operation goes on to its
\* next remote call or returns; on leaving block_in_place the thread takes a
\* worker core back if one is free
Resume(c) ==
    /\ bSt[c] = "answered"
    /\ bLeft' = [bLeft EXCEPT ![c] = bLeft[c] - 1]
    /\ IF bLeft[c] > 1
       THEN /\ bSt' = [bSt EXCEPT ![c] = "running"]
            /\ \E takes \in BOOLEAN :
                  /\ takes => (bCore[c] \/ FreeCores > 0)
                  /\ ~takes => ~bCore[c]
                  /\ bCore' = [bCore EXCEPT ![c] = takes]
       ELSE /\ bSt' = [bSt EXCEPT ![c] = "returned"]
            /\ bCore' = [bCore EXCEPT ![c] = FALSE]
    /\ UNCHANGED bOp
    /\ UNCHANGED nonBridgeVars

\* the task that made the call ends; another task may call
TaskEnds(c) ==
    /\ bSt[c] = "returned"
    /\ bSt' = [bSt EXCEPT ![c] = "idle"]
    /\ bOp' = [bOp EXCEPT ![c] = "none"]
    /\ UNCHANGED <<bCore, bLeft>>
    /\ UNCHANGED nonBridgeVars

BridgeNext ==
    \E c \in Callers :
        \/ CallSync(c)
        \/ BlockLocal(c)
        \/ BlockOn(c)
        \/ RpcServe(c)
        \/ Resume(c)
        \/ TaskEnds(c)

\* threads run, and the runtime keeps polling its tasks while a core is free
BridgeFairness ==
    \A c \in Callers :
        /\ WF_vars(BlockLocal(c))
        /\ WF_vars(BlockOn(c))
        /\ WF_vars(RpcServe(c))
        /\ WF_vars(Resume(c))

(***************************************************************************)
(* Properties of the blocking bridge.                                      *)
(***************************************************************************)
\* C17: when callers on different worker threads, up to as many as the
\* runtime has worker threads, are inside block_local at the same time (info,
\* number, block_status), their remote calls are still served and every one
\* of them eventually returns.
C17_BlockLocalCallersReturn ==
    \A c \in Callers :
        (bOp[c] \in BlockLocalOps /\ bSt[c] \in {"running", "waiting", "answered"})
            ~> (bSt[c] = "returned")

\* every worker thread's caller is parked inside block_local at once
C17_Witness ==
    \A c \in Callers : bOp[c] \in BlockLocalOps /\ bSt[c] = "waiting"

\* C18: every synchronous operation that waits for a remote call (header,
\* number, info, block_status) has handed its worker core over before it
\* parks, so that a parked caller always leaves a core free to serve the
\* remote calls, also when header is called from every worker thread.
C18_SyncOpsHandOffBeforeParking ==
    /\ \A c \in Callers : bSt[c] = "waiting" => ~bCore[c]
    /\ (\E c \in Callers : bSt[c] = "waiting") => FreeCores > 0

\* The operations that go through block_local do hand their core over.
BlockLocalOpsHandOffBeforeParking ==
    \A c \in Callers :
        (bOp[c] \in BlockLocalOps /\ bSt[c] = "waiting") => ~bCore[c]

(***************************************************************************)
(* CacheProvider and SimpleTrieCache: the node and value caches used while *)
(* a block is validated.                                                   *)
(***************************************************************************)
\* node hashes, and as many value keys
NumTrieKeys == 2
\* distinct nodes, and as many distinct cached values
NumTrieData == 2
\* operations made on one provider
MaxTrieOps == 5

TrieHashes == 1..NumTrieKeys

TrieKeys == 1..NumTrieKeys

TrieData == 1..NumTrieData

\* HashMap::get of a key that is not in the map
NoEntry == 0

TrieOp(op, key, fetched, kind, data) ==
    [op |-> op, key |-> key, fetched |-> fetched, kind |-> kind, data |-> data,
     cache |-> cacheId]

\* CacheProvider::new
TrieInit ==
    /\ nodeCache = [h \in TrieHashes |-> NoEntry]
    /\ valueCache = [k \in TrieKeys |-> NoEntry]
    /\ nodeBorrowed = FALSE
    /\ valueBorrowed = FALSE
    /\ liveCaches = 0
    /\ cacheId = 0
    /\ trieSt = "alive"
    /\ trieCalls = 0
    /\ lastTrieOp = [op |-> "new", key |-> 0, fetched |-> FALSE, kind |-> "ok",
                     data |-> NoEntry, cache |-> 0]

\* every operation is one more call on a provider that has not panicked
TrieCall ==
    /\ trieSt = "alive"
    /\ trieCalls < MaxTrieOps
    /\ trieCalls' = trieCalls + 1

\* an operation on a SimpleTrieCache needs that cache
CacheCall ==
    /\ TrieCall
    /\ liveCaches > 0

\* Mutation: a cache is handed out whether or not the maps are borrowed.
BorrowBoth_Aliases(op, root) ==
    /\ valueBorrowed' = TRUE
    /\ nodeBorrowed' = TRUE
    /\ liveCaches' = liveCaches + 1
    /\ cacheId' = cacheId + 1
    /\ lastTrieOp' = [TrieOp(op, root, FALSE, "ok", NoEntry) EXCEPT !.cache = cacheId + 1]
    /\ UNCHANGED trieSt

\* SimpleTrieCache { value_cache: self.value_cache.borrow_mut(),
\*                   node_cache: self.node_cache.borrow_mut() }
\* RefCell::borrow_mut panics when the cell is already borrowed
BorrowBoth(op, root) ==
    IF valueBorrowed \/ nodeBorrowed
    THEN /\ trieSt' = "panicked"
         /\ lastTrieOp' = TrieOp(op, root, FALSE, "panic", NoEntry)
         /\ UNCHANGED <<valueBorrowed, nodeBorrowed, liveCaches, cacheId>>
    ELSE /\ valueBorrowed' = TRUE
         /\ nodeBorrowed' = TRUE
         /\ liveCaches' = liveCaches + 1
         /\ cacheId' = cacheId + 1
         /\ lastTrieOp' = [TrieOp(op, root, FALSE, "ok", NoEntry) EXCEPT !.cache = cacheId + 1]
         /\ UNCHANGED trieSt

\* Mutation: a cache for a storage root starts from empty maps.
AsTrieDbCache_StartsEmpty ==
    /\ TrieCall
    /\ \E root \in TrieHashes : BorrowBoth("as_trie_db_cache", root)
    /\ nodeCache' = [h \in TrieHashes |-> NoEntry]
    /\ valueCache' = [k \in TrieKeys |-> NoEntry]
    /\ UNCHANGED nonTrieVars

\* TrieCacheProvider::as_trie_db_cache(&self, _storage_root)
AsTrieDbCache ==
    /\ TrieCall
    /\ \E root \in TrieHashes : BorrowBoth("as_trie_db_cache", root)
    /\ UNCHANGED <<nodeCache, valueCache>>
    /\ UNCHANGED nonTrieVars

\* TrieCacheProvider::as_trie_db_mut_cache(&self)
AsTrieDbMutCache ==
    /\ TrieCall
    /\ BorrowBoth("as_trie_db_mut_cache", 0)
    /\ UNCHANGED <<nodeCache, valueCache>>
    /\ UNCHANGED nonTrieVars

\* a SimpleTrieCache goes out of scope: its two RefMut are released
ReleaseCache(op, root) ==
    /\ liveCaches' = liveCaches - 1
    /\ valueBorrowed' = (liveCaches > 1)
    /\ nodeBorrowed' = (liveCaches > 1)
    /\ lastTrieOp' = TrieOp(op, root, FALSE, "ok", NoEntry)
    /\ UNCHANGED <<nodeCache, valueCache, cacheId, trieSt>>

DropCache ==
    /\ CacheCall
    /\ ReleaseCache("drop", 0)
    /\ UNCHANGED nonTrieVars

\* TrieCacheProvider::merge(&self, _other, _new_root) {}: the cache passed
\* by value is dropped when merge returns
Merge ==
    /\ CacheCall
    /\ \E root \in TrieHashes : ReleaseCache("merge", root)
    /\ UNCHANGED nonTrieVars

\* what fetch_node() may return: a node, or NoEntry for Err(..)
FetchOutcomes == TrieData \cup {NoEntry}

\* Mutation: the node is fetched and stored whether or not it is cached.
GetOrInsertNode_AlwaysFetches ==
    /\ CacheCall
    /\ \E hash \in TrieHashes, fetch \in FetchOutcomes :
          IF fetch # NoEntry
          THEN /\ nodeCache' = [nodeCache EXCEPT ![hash] = fetch]
               /\ lastTrieOp' = TrieOp("get_or_insert_node", hash, TRUE, "ok", fetch)
          ELSE /\ nodeCache' = nodeCache
               /\ lastTrieOp' = TrieOp("get_or_insert_node", hash, TRUE, "err", NoEntry)
    /\ UNCHANGED <<valueCache, nodeBorrowed, valueBorrowed, liveCaches, cacheId, trieSt>>
    /\ UNCHANGED nonTrieVars

\* match self.node_cache.entry(hash) {
\*     Entry::Occupied(entry) => Ok(entry.into_mut()),
\*     Entry::Vacant(entry) => Ok(entry.insert(fetch_node()?)) }
GetOrInsertNode ==
    /\ CacheCall
    /\ \E hash \in TrieHashes, fetch \in FetchOutcomes :
          IF nodeCache[hash] # NoEntry
          THEN /\ nodeCache' = nodeCache
               /\ lastTrieOp' = TrieOp("get_or_insert_node", hash, FALSE, "ok", nodeCache[hash])
          ELSE IF fetch # NoEntry
          THEN /\ nodeCache' = [nodeCache EXCEPT ![hash] = fetch]
               /\ lastTrieOp' = TrieOp("get_or_insert_node", hash, TRUE, "ok", fetch)
          ELSE /\ nodeCache' = nodeCache
               /\ lastTrieOp' = TrieOp("get_or_insert_node", hash, TRUE, "err", NoEntry)
    /\ UNCHANGED <<valueCache, nodeBorrowed, valueBorrowed, liveCaches, cacheId, trieSt>>
    /\ UNCHANGED nonTrieVars

\* self.node_cache.get(hash)
GetNode ==
    /\ CacheCall
    /\ \E hash \in TrieHashes :
          lastTrieOp' = TrieOp("get_node", hash, FALSE,
                               IF nodeCache[hash] # NoEntry THEN "ok" ELSE "none",
                               nodeCache[hash])
    /\ UNCHANGED <<nodeCache, valueCache, nodeBorrowed, valueBorrowed, liveCaches,
                   cacheId, trieSt>>
    /\ UNCHANGED nonTrieVars

\* self.value_cache.get(key)
LookupValueForKey ==
    /\ CacheCall
    /\ \E key \in TrieKeys :
          lastTrieOp' = TrieOp("lookup_value_for_key", key, FALSE,
                               IF valueCache[key] # NoEntry THEN "ok" ELSE "none",
                               valueCache[key])
    /\ UNCHANGED <<nodeCache, valueCache, nodeBorrowed, valueBorrowed, liveCaches,
                   cacheId, trieSt>>
    /\ UNCHANGED nonTrieVars

\* self.value_cache.insert(key.into(), value)
CacheValueForKey ==
    /\ CacheCall
    /\ \E key \in TrieKeys, value \in TrieData :
          /\ valueCache' = [valueCache EXCEPT ![key] = value]
          /\ lastTrieOp' = TrieOp("cache_value_for_key", key, FALSE, "ok", value)
    /\ UNCHANGED <<nodeCache, nodeBorrowed, valueBorrowed, liveCaches, cacheId, trieSt>>
    /\ UNCHANGED nonTrieVars

TrieNext ==
    \/ AsTrieDbCache
    \/ AsTrieDbMutCache
    \/ DropCache
    \/ Merge
    \/ GetOrInsertNode
    \/ GetNode
    \/ LookupValueForKey
    \/ CacheValueForKey

(***************************************************************************)
(* Properties of the trie cache.                                           *)
(***************************************************************************)
\* C28: get_or_insert_node runs the fetch callback exactly when the hash is
\* absent from the node cache; a hit returns the cached node; a miss whose
\* fetch succeeds stores and returns the fetched node; a miss whose fetch
\* fails returns the error and leaves the node cache as it was, so that the
\* hash is still absent.
C28_FetchOnMiss ==
    [][(trieCalls' # trieCalls /\ lastTrieOp'.op = "get_or_insert_node") =>
          LET hash == lastTrieOp'.key
          IN  /\ lastTrieOp'.fetched <=> (nodeCache[hash] = NoEntry)
              /\ nodeCache[hash] # NoEntry =>
                    /\ lastTrieOp'.kind = "ok"
                    /\ lastTrieOp'.data = nodeCache[hash]
                    /\ nodeCache' = nodeCache
              /\ (nodeCache[hash] = NoEntry /\ lastTrieOp'.kind = "ok") =>
                    /\ lastTrieOp'.data # NoEntry
                    /\ nodeCache' = [nodeCache EXCEPT ![hash] = lastTrieOp'.data]
              /\ (nodeCache[hash] = NoEntry /\ lastTrieOp'.kind # "ok") =>
                    /\ lastTrieOp'.kind = "err"
                    /\ nodeCache' = nodeCache
                    /\ nodeCache'[hash] = NoEntry]_vars

\* a hit: the node an earlier miss had fetched and stored is returned
\* without a fetch
C28_Witness ==
    /\ lastTrieOp.op = "get_or_insert_node"
    /\ ~lastTrieOp.fetched
    /\ lastTrieOp.kind = "ok"
    /\ lastTrieOp.data # NoEntry
    /\ lastTrieOp.data = nodeCache[lastTrieOp.key]
    /\ trieCalls >= 3

\* C29: starting from the empty caches of CacheProvider::new, a stored node
\* is never evicted or replaced, a cached value stays present and changes
\* only by cache_value_for_key for its key, and obtaining a cache (for any
\* storage root), releasing one and merge leave every entry as it is, so
\* that each cache obtained later sees the entries of the earlier ones.
C29_EntriesPersist ==
    /\ [][\A hash \in TrieHashes :
            nodeCache[hash] # NoEntry => nodeCache'[hash] = nodeCache[hash]]_vars
    /\ [][\A key \in TrieKeys :
            valueCache[key] # NoEntry =>
                /\ valueCache'[key] # NoEntry
                /\ valueCache'[key] # valueCache[key] =>
                      (lastTrieOp'.op = "cache_value_for_key" /\ lastTrieOp'.key = key)]_vars
    /\ [][lastTrieOp'.op \in {"as_trie_db_cache", "as_trie_db_mut_cache", "merge", "drop"} =>
            (nodeCache' = nodeCache /\ valueCache' = valueCache)]_vars

\* the second cache of the provider, obtained after the first was released,
\* finds the node the first one had stored
C29_Witness ==
    /\ cacheId = 2
    /\ liveCaches = 1
    /\ lastTrieOp.op = "get_node"
    /\ lastTrieOp.cache = 2
    /\ lastTrieOp.kind = "ok"
    /\ lastTrieOp.data # NoEntry
    /\ trieCalls = 5

\* C30: as long as nothing has panicked at most one SimpleTrieCache of the
\* provider is alive, and it holds both maps exclusively; asking for a cache
\* while one is alive panics and hands out no second cache; once the cache
\* is released a new one can be obtained.
C30_AtMostOneLiveCache ==
    /\ [](liveCaches <= 1)
    /\ [](nodeBorrowed = (liveCaches = 1) /\ valueBorrowed = (liveCaches = 1))
    /\ [](trieSt = "panicked" =>
            (lastTrieOp.op \in {"as_trie_db_cache", "as_trie_db_mut_cache"}
                /\ lastTrieOp.kind = "panic" /\ liveCaches = 1))
    /\ [][(lastTrieOp'.op \in {"as_trie_db_cache", "as_trie_db_mut_cache"}
              /\ trieCalls' # trieCalls) =>
            IF liveCaches = 0
            THEN liveCaches' = 1 /\ trieSt' = "alive" /\ cacheId' = cacheId + 1
            ELSE liveCaches' = liveCaches /\ trieSt' = "panicked"
                    /\ cacheId' = cacheId]_vars

\* the first cache was released and a second one obtained; asking for a
\* third while the second is alive has panicked
C30_Witness ==
    /\ trieSt = "panicked"
    /\ liveCaches = 1
    /\ cacheId = 2
    /\ lastTrieOp.kind = "panic"

(***************************************************************************)
(* Specifications.                                                         *)
(***************************************************************************)
Init == NetInit /\ StreamInit /\ AdapterInit /\ BridgeInit /\ TrieInit

\* the network assembly and its driving loop
Spec == Init /\ [][NetNext]_vars

LiveSpec == Init /\ [][NetNext]_vars /\ LoopFairness

\* the notification streams
StreamSpec == Init /\ [][StreamNext]_vars

\* the blockchain backend adapter and runtime client
AdapterSpec == Init /\ [][AdapterNext]_vars

\* the blocking bridge under concurrent callers
BridgeSpec == Init /\ [][BridgeNext]_vars

BridgeLiveSpec == Init /\ [][BridgeNext]_vars /\ BridgeFairness

\* the trie cache provider and its caches
TrieSpec == Init /\ [][TrieNext]_vars

=============================================================================
